---- MODULE Spec2Model ----
(***************************************************************************)
(* Model of the voice session server of esp32-ai-voice (fastapi_app.py):   *)
(* the per-connection handler websocket_endpoint, the three pipeline       *)
(* stages it calls, the conversation memory kept per client id, the        *)
(* websocket routes, and led_websocket_endpoint with the relay of the      *)
(* texts "1" and "0" to the LED controller.                                *)
(*                                                                         *)
(* Spec      the server as deployed, one device on /ws/esp32               *)
(* SpecFair  Spec with every handler step weakly fair                      *)
(* SpecSend  the send loop of one turn, replies of many lengths            *)
(* SpecRoute connections opened on /ws/esp32 and on /ws/led                *)
(* SpecRelay the two handlers with LED controllers in                      *)
(*           led_websocket_endpoint                                        *)
(* SpecPair  two devices served at once                                    *)
(*                                                                         *)
(* The audio receiving server (simple_server.py), whose connections all    *)
(* use the one module-level AudioReceiver, is modelled by SpecRecorder.    *)
(***************************************************************************)
EXTENDS Integers, Sequences, FiniteSets, TLC

\* ------------------------------------------------------------------ bounds
MaxInbox == 1      \* messages queued by the transport for one connection
MaxFrames == 2     \* binary frames a client sends after one recording_started
MaxHist == 4       \* history entries after which the client ends no more turns
MaxChunks == 9     \* chunks of the longest synthesized reply
MaxSignals == 2    \* "1"/"0" texts under way to or logged at the LED controllers

\* --------------------------------------------------------- program constants
CHUNK_SIZE == 1024
BURST_SIZE == 8
LOOPBACK_CHUNK_SIZE == 3200     \* CHUNK_SIZE of loopback_server.py

Sess == {"s1"}
Obs == {"o1", "o2"}             \* connections handled by led_websocket_endpoint
ClientIds == {"esp32"}
SessionIds == ClientIds \cup {"led"}      \* session ids the memory may be asked for
None == "None"

\* ----------------------------------------------------------- wire messages
TxtWake == "{\"event\": \"wake_word_detected\"}"
TxtStarted == "{\"event\": \"recording_started\"}"
TxtEnded == "{\"event\": \"recording_ended\"}"
TxtCancelled == "{\"event\": \"recording_cancelled\"}"
TxtOther == "{\"event\": \"ping\"}"
TxtArray == "[1]"
TxtBroken == "{oops"
TxtOne == "1"
TxtZero == "0"

Texts == {TxtWake, TxtStarted, TxtEnded, TxtCancelled, TxtOther, TxtArray,
          TxtBroken, TxtOne, TxtZero}

\* Binary frames as byte sequences; the empty frame is a legal message.
Frames == {<<>>, <<1>>, <<2, 3>>}

TextMsg(t) == [kind |-> "text", text |-> t, bytes |-> <<>>]
BytesMsg(b) == [kind |-> "bytes", text |-> "", bytes |-> b]
DisconnectMsg == [kind |-> "disconnect", text |-> "", bytes |-> <<>>]

\* json.loads followed by data.get("event"): the event name, or the exception
\* the two calls raise.
json_event(text) ==
    CASE text = TxtWake -> [raises |-> FALSE, event |-> "wake_word_detected"]
      [] text = TxtStarted -> [raises |-> FALSE, event |-> "recording_started"]
      [] text = TxtEnded -> [raises |-> FALSE, event |-> "recording_ended"]
      [] text = TxtCancelled -> [raises |-> FALSE, event |-> "recording_cancelled"]
      [] text = TxtOther -> [raises |-> FALSE, event |-> "ping"]
      [] text = TxtArray -> [raises |-> TRUE, event |-> "AttributeError"]
      [] OTHER -> [raises |-> TRUE, event |-> "JSONDecodeError"]

\* ------------------------------------------------------- collaborators
\* Results of speech_client.asr: a result dict, or the call raising.
SttResults == { [raises |-> FALSE, err_no |-> 0, result |-> <<"hello">>],
                [raises |-> FALSE, err_no |-> 0, result |-> <<>>],
                [raises |-> FALSE, err_no |-> 0, result |-> <<"">>],
                [raises |-> FALSE, err_no |-> 3301, result |-> <<>>],
                [raises |-> TRUE, err_no |-> 0, result |-> <<>>] }

transcribe_audio_stream(stt_result) ==
    IF stt_result.err_no = 0 /\ stt_result.result # <<>>
    THEN stt_result.result[1]
    ELSE ""

\* Results of the chain call: the reply text, or the call raising.
LlmResults == { [raises |-> FALSE, text |-> "reply"],
                [raises |-> TRUE, text |-> ""] }

Human(t) == [speaker |-> "human", text |-> t]
Assistant(t) == [speaker |-> "assistant", text |-> t]

\* Mutant: only the question is stored.
chain_save_question(hist, question, answer) == hist \o <<Human(question)>>

\* tutor_chain.invoke with a Redis backed memory: on success the question
\* and the answer are stored after the history already there.
chain_save(hist, question, answer) ==
    hist \o <<Human(question), Assistant(answer)>>

\* Results of speech_client.synthesis: audio bytes (here their length), an
\* error dict, or the call raising.
ReplyLens == {0, CHUNK_SIZE, MaxChunks * CHUNK_SIZE - 300}
TtsResults == { [raises |-> FALSE, isdict |-> FALSE, len |-> n] : n \in ReplyLens }
              \cup { [raises |-> FALSE, isdict |-> TRUE, len |-> 0],
                     [raises |-> TRUE, isdict |-> FALSE, len |-> 0] }

synthesize_speech_stream(tts_result) ==
    IF ~tts_result.isdict THEN tts_result.len ELSE 0

\* ------------------------------------------------------------------ state
VARIABLES
    pc,                    \* position of each connection's handler
    client_id,             \* path parameter of the connection
    inbox,                 \* messages delivered by the transport, not yet received
    is_recording,          \* client_state["is_recording"]
    audio_buffer,          \* client_state["audio_buffer"]
    user_text,             \* local of the running turn
    ai_response_text,      \* local of the running turn
    response_audio_bytes,  \* local of the running turn (length of the audio)
    i,                     \* offset of the next chunk in the send loop
    burst_count,           \* chunks sent since the last yield
    led_controller_connection,  \* the global observer slot
    history,               \* Redis chat history, one sequence per session id
    inflight,              \* pipeline invocations started and not yet finished
    lastCtl,               \* last of started/ended/cancelled received
    framesSince,           \* frames received in the recording under way
    turn,                  \* what the turn started by the last message did
    opc,                   \* position of each led_websocket_endpoint handler
    fwd,                   \* the send_text to the LED controller under way
    delivered,             \* texts each LED controller connection was sent
    regs,                  \* LED controller connections in registration order
    path,                  \* the URL path each connection was opened on
    audio_receiver,        \* simple_server.py: the module-level AudioReceiver
    rpc,                   \* simple_server.py: position of each connection's handler
    rinbox,                \* simple_server.py: messages not yet received
    saved,                 \* simple_server.py: the WAV file last written
    reply,                 \* simple_server.py: last response sent to each connection
    own                    \* what an AudioReceiver fed one connection's messages holds

vars == <<pc, client_id, inbox, is_recording, audio_buffer, user_text,
          ai_response_text, response_audio_bytes, i, burst_count,
          led_controller_connection, history, inflight, lastCtl,
          framesSince, turn, opc, fwd, delivered, regs, path,
          audio_receiver, rpc, rinbox, saved, reply, own>>

locals == <<user_text, ai_response_text, response_audio_bytes, i, burst_count>>

relay == <<opc, fwd, delivered, regs, path>>

recorder == <<audio_receiver, rpc, rinbox, saved, reply, own>>

Devices == {"d1", "d2"}         \* connections to simple_server.py

\* No file written yet; a file is the saved bytes, with the connection whose
\* recording_ended wrote it.
NoFile == [by |-> None, data |-> <<>>]

\* AudioReceiver.__init__
AudioReceiver == [is_recording |-> FALSE, audio_buffer |-> <<>>]

InitRecorder ==
    /\ audio_receiver = AudioReceiver
    /\ rpc = [c \in Devices |-> "init"]
    /\ rinbox = [c \in Devices |-> <<>>]
    /\ saved = NoFile
    /\ reply = [c \in Devices |-> None]
    /\ own = [c \in Devices |-> AudioReceiver]

\* No forward under way.
NoFwd == [target |-> None, text |-> "", regs |-> 0]

InitRelay ==
    /\ opc = [o \in Obs |-> "init"]
    /\ fwd = [s \in Sess |-> NoFwd]
    /\ delivered = [o \in Obs |-> <<>>]
    /\ regs = <<>>
    /\ path = [s \in Sess |-> <<>>]

TurnZero == [rec |-> FALSE, replied |-> FALSE, asr |-> 0, arg |-> <<>>,
             expect |-> <<>>, llm |-> 0, app |-> 0, tts |-> 0, len |-> 0,
             sent |-> <<>>, failed |-> 0, mark |-> 0, yields |-> 0,
             out |-> "none"]

Init ==
    /\ pc = [s \in Sess |-> "init"]
    /\ client_id = [s \in Sess |-> None]
    /\ inbox = [s \in Sess |-> <<>>]
    /\ is_recording = [s \in Sess |-> FALSE]
    /\ audio_buffer = [s \in Sess |-> <<>>]
    /\ user_text = [s \in Sess |-> ""]
    /\ ai_response_text = [s \in Sess |-> ""]
    /\ response_audio_bytes = [s \in Sess |-> 0]
    /\ i = [s \in Sess |-> 0]
    /\ burst_count = [s \in Sess |-> 0]
    /\ led_controller_connection = None
    /\ history = [c \in SessionIds |-> <<>>]
    /\ inflight = [s \in Sess |-> 0]
    /\ lastCtl = [s \in Sess |-> "none"]
    /\ framesSince = [s \in Sess |-> <<>>]
    /\ turn = [s \in Sess |-> TurnZero]
    /\ InitRelay
    /\ InitRecorder

\* ---------------------------------------------------------------- helpers
RECURSIVE Concat(_)
Concat(frames) ==
    IF frames = <<>> THEN <<>> ELSE Head(frames) \o Concat(Tail(frames))

RECURSIVE CountIn(_, _)
CountIn(q, m) ==
    IF q = <<>> THEN 0
    ELSE (IF Head(q) = m THEN 1 ELSE 0) + CountIn(Tail(q), m)

RECURSIVE CountKind(_, _)
CountKind(q, k) ==
    IF q = <<>> THEN 0
    ELSE (IF Head(q).kind = k THEN 1 ELSE 0) + CountKind(Tail(q), k)

Pipeline == {"asr", "llm", "tts", "sleep", "send", "yield", "marker"}

\* Turns the client has asked for that may still write to the history.
\* "1"/"0" texts queued, being forwarded, or logged at a controller.
RECURSIVE SumLen(_, _)
SumLen(f, S) ==
    IF S = {} THEN 0
    ELSE LET x == CHOOSE y \in S : TRUE IN Len(f[x]) + SumLen(f, S \ {x})

Signals ==
    SumLen(delivered, Obs)
    + SumLen([s \in Sess |-> SelectSeq(inbox[s],
                 LAMBDA m : m.text \in {TxtOne, TxtZero})], Sess)
    + Cardinality({s \in Sess : pc[s] = "fwd"})

PendingEnds(s) ==
    CountIn(inbox[s], TextMsg(TxtEnded)) + (IF pc[s] \in {"asr", "llm"} THEN 1 ELSE 0)

Min(a, b) == IF a < b THEN a ELSE b

\* The synthesized audio: byte k of every reply (the content is the
\* synthesizer's, any fixed content will do), and the slice audio[lo:hi].
AudioByte(k) == (k * 37 + 11) % 256
Slice(lo, hi) == [k \in 1..(hi - lo) |-> AudioByte(lo + k - 1)]

\* send_audio_stream of loopback_server.py with every send succeeding: the
\* slices audio[i:i + CHUNK_SIZE] for i in range(from, len, CHUNK_SIZE).
RECURSIVE send_audio_stream(_, _)
send_audio_stream(from, len) ==
    IF from >= len THEN <<>>
    ELSE <<[kind |-> "bytes", lo |-> from,
            hi |-> Min(from + LOOPBACK_CHUNK_SIZE, len)]>>
         \o send_audio_stream(from + LOOPBACK_CHUNK_SIZE, len)

\* ------------------------------------------------------------ the client
\* The device (or the network) puts one more message on the connection.
ClientSend(s, m) ==
    /\ pc[s] \notin {"init", "closed"}
    /\ Len(inbox[s]) < MaxInbox
    /\ CountKind(inbox[s], "disconnect") = 0
    /\ m.kind = "bytes" =>
          Len(framesSince[s]) + CountKind(inbox[s], "bytes") < MaxFrames
    /\ m = TextMsg(TxtEnded) =>
          Len(history[client_id[s]]) + 2 * PendingEnds(s) < MaxHist
    /\ m.text \in {TxtOne, TxtZero} => Signals < MaxSignals
    /\ inbox' = [inbox EXCEPT ![s] = Append(@, m)]
    /\ UNCHANGED <<recorder, relay, pc, client_id, is_recording, audio_buffer, locals, history,
                   inflight, framesSince, turn, led_controller_connection,
                   lastCtl>>

\* Mutant: a connection registers only while the slot is free.
register_if_free(slot, websocket) == IF slot = None THEN websocket ELSE slot

\* `led_controller_connection = websocket`
register(slot, websocket) == websocket

\* ---------------------------------------------------------------- routing
\* The websocket routes of the application in the order the decorators add
\* them; a path is a sequence of segments.
Routes == << [path |-> <<"ws", "{client_id}">>, endpoint |-> "websocket_endpoint"],
             [path |-> <<"ws", "led">>, endpoint |-> "led_websocket_endpoint"] >>

IsParam(segment) == segment = "{client_id}"

Matches(pattern, p) ==
    /\ Len(pattern) = Len(p)
    /\ \A k \in 1..Len(p) : IsParam(pattern[k]) \/ pattern[k] = p[k]

Matching(p) == {k \in 1..Len(Routes) : Matches(Routes[k].path, p)}

\* Mutant: a route without parameters is preferred to one with.
route_literal_first(p) ==
    LET exact == {k \in Matching(p) : Routes[k].path = p}
        ks == IF exact # {} THEN exact ELSE Matching(p)
    IN Routes[CHOOSE k \in ks : \A j \in ks : k <= j].endpoint

\* The router hands the connection to the first route that matches.
route(p) ==
    Routes[CHOOSE k \in Matching(p) : \A j \in Matching(p) : k <= j].endpoint

\* --------------------------------------------------- websocket_endpoint
\* A connection is opened on path p and the endpoint it is routed to runs up
\* to its receive loop: websocket_endpoint accepts and makes the fresh
\* client_state, led_websocket_endpoint accepts and stores the connection.
Accept(s, p) ==
    /\ pc[s] = "init"
    /\ Matching(p) # {}
    /\ path' = [path EXCEPT ![s] = p]
    /\ IF route(p) = "websocket_endpoint"
       THEN /\ pc' = [pc EXCEPT ![s] = "recv"]
            /\ client_id' = [client_id EXCEPT ![s] = p[2]]
            /\ is_recording' = [is_recording EXCEPT ![s] = FALSE]
            /\ audio_buffer' = [audio_buffer EXCEPT ![s] = <<>>]
            /\ UNCHANGED <<led_controller_connection, regs>>
       ELSE /\ pc' = [pc EXCEPT ![s] = "led"]
            /\ led_controller_connection' =
                  register(led_controller_connection, s)
            /\ regs' = Append(regs, s)
            /\ UNCHANGED <<client_id, is_recording, audio_buffer>>
    /\ UNCHANGED <<recorder, opc, fwd, delivered, inbox, locals, history, inflight,
                   framesSince, turn, lastCtl>>

\* A device connects on /ws/<its client id>.
Connect(s, c) == Accept(s, <<"ws", c>>)

\* Mutant: the pipeline runs as a task of its own and the loop keeps receiving.
CanReceiveWhileProcessing(s) == pc[s] \notin {"init", "closed"}

\* Mutant: the stage functions are called on the event loop itself.
blocks_loop_sync(stage) == stage \in {"asr", "llm", "tts"}

\* Each stage function runs under asyncio.to_thread, on a worker thread, so
\* the event loop is free while the call is under way.
blocks_loop(stage) == FALSE

\* The event loop can run the handler of s: no other handler holds it.
Runnable(s) == \A t \in DOMAIN pc \ {s} : ~blocks_loop(pc[t])

\* The handler takes the next message only at `await websocket.receive()`.
CanReceive(s) == pc[s] = "recv" /\ Runnable(s)

Taking(s) == CanReceive(s) /\ inbox[s] # <<>>

Take(s) == inbox' = [inbox EXCEPT ![s] = Tail(@)]

\* The except/finally clauses: the connection is closed and the handler ends.
Teardown(s) ==
    /\ pc' = [pc EXCEPT ![s] = "closed"]
    /\ inflight' = [inflight EXCEPT ![s] = IF pc[s] \in Pipeline THEN @ - 1 ELSE @]

\* A disconnect message: neither text nor bytes, the next receive raises.
RecvDisconnect(s) ==
    /\ Taking(s) /\ Head(inbox[s]).kind = "disconnect"
    /\ Take(s)
    /\ Teardown(s)
    /\ turn' = [turn EXCEPT ![s] = TurnZero]
    /\ UNCHANGED <<recorder, relay, client_id, is_recording, audio_buffer, locals, history,
                   framesSince, led_controller_connection, lastCtl>>

\* Mutant: the frame is appended whatever the recording flag says.
extend_always(recording, buffer, chunk) == buffer \o chunk

\* elif "bytes" in message
extend_buffer(recording, buffer, chunk) ==
    IF recording THEN buffer \o chunk ELSE buffer

RecvBytes(s) ==
    /\ Taking(s) /\ Head(inbox[s]).kind = "bytes"
    /\ Take(s)
    /\ audio_buffer' = [audio_buffer EXCEPT ![s] =
                           extend_buffer(is_recording[s], @, Head(inbox[s]).bytes)]
    /\ framesSince' = [framesSince EXCEPT ![s] =
                          IF is_recording[s] THEN Append(@, Head(inbox[s]).bytes) ELSE @]
    /\ turn' = [turn EXCEPT ![s] = TurnZero]
    /\ UNCHANGED <<recorder, relay, pc, client_id, is_recording, locals, history, inflight,
                   led_controller_connection, lastCtl>>

\* Mutant: no text is taken for an LED signal.
is_signal_never(text) == FALSE

\* `if text == "1" or text == "0"`
is_signal(text) == text = TxtOne \/ text = TxtZero

IsEvent(s, e) ==
    /\ Taking(s) /\ Head(inbox[s]).kind = "text"
    /\ ~is_signal(Head(inbox[s]).text)
    /\ ~json_event(Head(inbox[s]).text).raises
    /\ json_event(Head(inbox[s]).text).event = e

\* json.loads or data.get raises: caught by `except Exception`, then finally.
RecvMalformed(s) ==
    /\ Taking(s) /\ Head(inbox[s]).kind = "text"
    /\ ~is_signal(Head(inbox[s]).text)
    /\ json_event(Head(inbox[s]).text).raises
    /\ Take(s)
    /\ Teardown(s)
    /\ turn' = [turn EXCEPT ![s] = TurnZero]
    /\ UNCHANGED <<recorder, relay, client_id, is_recording, audio_buffer, locals, history,
                   framesSince, led_controller_connection, lastCtl>>

\* The literal texts "1" and "0": forwarded to the LED controller when one is
\* registered (the handler then waits in send_text of the connection it read
\* from the slot), then `continue`. No controller registers under Spec, so
\* there the slot stays None.
RecvSignal(s) ==
    /\ Taking(s) /\ Head(inbox[s]).kind = "text"
    /\ is_signal(Head(inbox[s]).text)
    /\ Take(s)
    /\ IF led_controller_connection = None
       THEN UNCHANGED <<pc, fwd>>
       ELSE /\ pc' = [pc EXCEPT ![s] = "fwd"]
            /\ fwd' = [fwd EXCEPT ![s] = [target |-> led_controller_connection,
                                          text |-> Head(inbox[s]).text,
                                          regs |-> Len(regs)]]
    /\ turn' = [turn EXCEPT ![s] =
                   [TurnZero EXCEPT !.out = IF led_controller_connection = None
                                            THEN "no_controller"
                                            ELSE "forwarding"]]
    /\ UNCHANGED <<recorder, path, opc, delivered, regs, client_id, is_recording, audio_buffer,
                   locals, history, inflight, framesSince,
                   led_controller_connection, lastCtl>>

\* send_text returns: the text went out on the controller's connection (or was
\* dropped by the server if that connection's handler has already ended).
FwdReturns(s) ==
    /\ pc[s] = "fwd"
    /\ delivered' = [delivered EXCEPT ![fwd[s].target] =
                        IF opc[fwd[s].target] = "recv"
                        THEN Append(@, fwd[s].text) ELSE @]
    /\ pc' = [pc EXCEPT ![s] = "recv"]
    /\ fwd' = [fwd EXCEPT ![s] = NoFwd]
    /\ turn' = [turn EXCEPT ![s].out = "forwarded"]
    /\ UNCHANGED <<recorder, path, opc, regs, client_id, inbox, is_recording, audio_buffer,
                   locals, history, inflight, framesSince,
                   led_controller_connection, lastCtl>>

\* Mutant: a failed forward leaves the slot as it is.
slot_after_forward_error_kept(slot) == slot

\* `led_controller_connection = None` of the except clause
slot_after_forward_error(slot) == None

\* send_text raises: the slot is cleared and the loop continues.
FwdFails(s) ==
    /\ pc[s] = "fwd"
    /\ led_controller_connection' =
          slot_after_forward_error(led_controller_connection)
    /\ pc' = [pc EXCEPT ![s] = "recv"]
    /\ fwd' = [fwd EXCEPT ![s] = NoFwd]
    /\ turn' = [turn EXCEPT ![s].out = "forward_failed"]
    /\ UNCHANGED <<recorder, path, opc, delivered, regs, client_id, inbox, is_recording,
                   audio_buffer, locals, history, inflight, framesSince,
                   lastCtl>>

\* ----------------------------------------------- led_websocket_endpoint
\* accept, then the connection is stored in the slot.
ObsRegister(o) ==
    /\ opc[o] = "init"
    /\ opc' = [opc EXCEPT ![o] = "recv"]
    /\ led_controller_connection' = register(led_controller_connection, o)
    /\ regs' = Append(regs, o)
    /\ UNCHANGED <<recorder, path, fwd, delivered, pc, client_id, inbox, is_recording,
                   audio_buffer, locals, history, inflight, framesSince, turn,
                   lastCtl>>

\* receive_text raises (the controller disconnected, or sent a binary frame):
\* the finally clause clears the slot, whoever is in it. A text from the
\* controller is printed and changes nothing.
ObsEnds(o) ==
    /\ opc[o] = "recv"
    /\ opc' = [opc EXCEPT ![o] = "closed"]
    /\ led_controller_connection' = None
    /\ UNCHANGED <<recorder, path, fwd, delivered, regs, pc, client_id, inbox, is_recording,
                   audio_buffer, locals, history, inflight, framesSince, turn,
                   lastCtl>>

\* wake_word_detected, and every event name no branch matches.
RecvIgnored(s) ==
    /\ \E e \in {"wake_word_detected", "ping"} : IsEvent(s, e)
    /\ Take(s)
    /\ turn' = [turn EXCEPT ![s] = TurnZero]
    /\ UNCHANGED <<recorder, relay, pc, client_id, is_recording, audio_buffer, locals, history,
                   inflight, framesSince, led_controller_connection, lastCtl>>

\* Mutant: recording_started forgets to clear the buffer.
started_keeps(buffer) == buffer

\* client_state["audio_buffer"].clear() of recording_started
started_buffer(buffer) == <<>>

RecvStarted(s) ==
    /\ IsEvent(s, "recording_started")
    /\ Take(s)
    /\ is_recording' = [is_recording EXCEPT ![s] = TRUE]
    /\ lastCtl' = [lastCtl EXCEPT ![s] = "started"]
    /\ audio_buffer' = [audio_buffer EXCEPT ![s] = started_buffer(@)]
    /\ framesSince' = [framesSince EXCEPT ![s] = <<>>]
    /\ turn' = [turn EXCEPT ![s] = TurnZero]
    /\ UNCHANGED <<recorder, relay, pc, client_id, locals, history, inflight,
                   led_controller_connection>>

\* Mutant: recording_cancelled forgets to clear the buffer.
cancelled_keeps(buffer) == buffer

\* client_state["audio_buffer"].clear() of recording_cancelled
cancelled_buffer(buffer) == <<>>

RecvCancelled(s) ==
    /\ IsEvent(s, "recording_cancelled")
    /\ Take(s)
    /\ is_recording' = [is_recording EXCEPT ![s] = FALSE]
    /\ audio_buffer' = [audio_buffer EXCEPT ![s] = cancelled_buffer(@)]
    /\ lastCtl' = [lastCtl EXCEPT ![s] = "cancelled"]
    /\ framesSince' = [framesSince EXCEPT ![s] = <<>>]
    /\ turn' = [turn EXCEPT ![s] = TurnZero]
    /\ UNCHANGED <<recorder, relay, pc, client_id, locals, history, inflight,
                   led_controller_connection>>

\* Mutant: the empty-buffer test is missing.
buffer_never_empty(buffer) == FALSE

\* `if not client_state["audio_buffer"]`
buffer_is_empty(buffer) == buffer = <<>>

\* recording_ended with nothing buffered: the warning and `continue`.
RecvEndedEmpty(s) ==
    /\ IsEvent(s, "recording_ended")
    /\ buffer_is_empty(audio_buffer[s])
    /\ Take(s)
    /\ is_recording' = [is_recording EXCEPT ![s] = FALSE]
    /\ lastCtl' = [lastCtl EXCEPT ![s] = "ended"]
    /\ turn' = [turn EXCEPT ![s] = [TurnZero EXCEPT !.out = "empty"]]
    /\ framesSince' = [framesSince EXCEPT ![s] = <<>>]
    /\ UNCHANGED <<recorder, relay, pc, client_id, audio_buffer, locals, history, inflight,
                   led_controller_connection>>

\* recording_ended with audio: the turn starts and the transcriber is handed
\* bytes(audio_buffer) on a worker thread.
RecvEnded(s) ==
    /\ IsEvent(s, "recording_ended")
    /\ ~buffer_is_empty(audio_buffer[s])
    /\ Take(s)
    /\ is_recording' = [is_recording EXCEPT ![s] = FALSE]
    /\ lastCtl' = [lastCtl EXCEPT ![s] = "ended"]
    /\ pc' = [pc EXCEPT ![s] = "asr"]
    /\ inflight' = [inflight EXCEPT ![s] = @ + 1]
    /\ turn' = [turn EXCEPT ![s] =
                   [TurnZero EXCEPT !.out = "running", !.rec = is_recording[s],
                                    !.arg = audio_buffer[s],
                                    !.expect = Concat(framesSince[s])]]
    /\ framesSince' = [framesSince EXCEPT ![s] = <<>>]
    /\ UNCHANGED <<recorder, relay, client_id, audio_buffer, locals, history,
                   led_controller_connection>>

\* The turn is over and the loop goes back to `await websocket.receive()`.
\* The locals of the turn are dead from here on (each is assigned again before
\* it is read), so they go back to their initial values.
DropLocals(s) ==
    /\ user_text' = [user_text EXCEPT ![s] = ""]
    /\ ai_response_text' = [ai_response_text EXCEPT ![s] = ""]
    /\ response_audio_bytes' = [response_audio_bytes EXCEPT ![s] = 0]
    /\ i' = [i EXCEPT ![s] = 0]
    /\ burst_count' = [burst_count EXCEPT ![s] = 0]

Continue(s, outcome) ==
    /\ pc' = [pc EXCEPT ![s] = "recv"]
    /\ inflight' = [inflight EXCEPT ![s] = @ - 1]
    /\ DropLocals(s)
    /\ turn' = [turn EXCEPT ![s].out = outcome,
                            ![s].asr = IF pc[s] = "asr" THEN @ + 1 ELSE @,
                            ![s].tts = IF pc[s] = "tts" THEN @ + 1 ELSE @,
                            ![s].mark = IF pc[s] = "marker" THEN @ + 1 ELSE @]

\* A stage call raises in its worker thread: `except Exception`, then finally.
StageRaises(s) ==
    /\ Teardown(s)
    /\ DropLocals(s)
    /\ turn' = [turn EXCEPT ![s].out = "raised",
                            ![s].asr = IF pc[s] = "asr" THEN @ + 1 ELSE @,
                            ![s].llm = IF pc[s] = "llm" THEN @ + 1 ELSE @,
                            ![s].tts = IF pc[s] = "tts" THEN @ + 1 ELSE @]

\* 1. ASR
AsrRaises(s) ==
    /\ pc[s] = "asr"
    /\ \E r \in SttResults : r.raises
    /\ StageRaises(s)
    /\ UNCHANGED <<recorder, relay, client_id, inbox, is_recording, audio_buffer, history,
                   framesSince, led_controller_connection, lastCtl>>

AsrFails(s, r) ==
    /\ pc[s] = "asr" /\ ~r.raises
    /\ transcribe_audio_stream(r) = ""
    /\ Continue(s, "asr_failed")
    /\ UNCHANGED <<recorder, relay, client_id, inbox, is_recording, audio_buffer, history,
                   framesSince, led_controller_connection, lastCtl>>

AsrReturns(s, r) ==
    /\ pc[s] = "asr" /\ ~r.raises
    /\ transcribe_audio_stream(r) # ""
    /\ user_text' = [user_text EXCEPT ![s] = transcribe_audio_stream(r)]
    /\ pc' = [pc EXCEPT ![s] = "llm"]
    /\ turn' = [turn EXCEPT ![s].asr = @ + 1]
    /\ UNCHANGED <<recorder, relay, client_id, inbox, is_recording, audio_buffer,
                   ai_response_text, response_audio_bytes, i, burst_count,
                   history, inflight, framesSince, led_controller_connection,
                   lastCtl>>

\* 2. LLM: get_ai_response_with_redis(user_text, client_id)
LlmRaises(s) ==
    /\ pc[s] = "llm"
    /\ \E r \in LlmResults : r.raises
    /\ StageRaises(s)
    /\ UNCHANGED <<recorder, relay, client_id, inbox, is_recording, audio_buffer, history,
                   framesSince, led_controller_connection, lastCtl>>

LlmReturns(s, r) ==
    /\ pc[s] = "llm" /\ ~r.raises
    /\ history' = [history EXCEPT ![client_id[s]] = chain_save(@, user_text[s], r.text)]
    /\ ai_response_text' = [ai_response_text EXCEPT ![s] = r.text]
    /\ pc' = [pc EXCEPT ![s] = "tts"]
    /\ turn' = [turn EXCEPT ![s].app = @ + Len(history'[client_id[s]])
                                          - Len(history[client_id[s]]),
                            ![s].llm = @ + 1,
                            ![s].replied = TRUE]
    /\ UNCHANGED <<recorder, relay, client_id, inbox, is_recording, audio_buffer, user_text,
                   response_audio_bytes, i, burst_count, inflight, framesSince,
                   led_controller_connection, lastCtl>>

\* 3. TTS
TtsRaises(s) ==
    /\ pc[s] = "tts"
    /\ \E r \in TtsResults : r.raises
    /\ StageRaises(s)
    /\ UNCHANGED <<recorder, relay, client_id, inbox, is_recording, audio_buffer, history,
                   framesSince, led_controller_connection, lastCtl>>

TtsFails(s, r) ==
    /\ pc[s] = "tts" /\ ~r.raises
    /\ synthesize_speech_stream(r) = 0
    /\ Continue(s, "tts_failed")
    /\ UNCHANGED <<recorder, relay, client_id, inbox, is_recording, audio_buffer, history,
                   framesSince, led_controller_connection, lastCtl>>

TtsReturns(s, r) ==
    /\ pc[s] = "tts" /\ ~r.raises
    /\ synthesize_speech_stream(r) # 0
    /\ response_audio_bytes' = [response_audio_bytes EXCEPT ![s] =
                                   synthesize_speech_stream(r)]
    /\ pc' = [pc EXCEPT ![s] = "sleep"]
    /\ turn' = [turn EXCEPT ![s].tts = @ + 1,
                            ![s].len = synthesize_speech_stream(r)]
    /\ UNCHANGED <<recorder, relay, client_id, inbox, is_recording, audio_buffer, user_text,
                   ai_response_text, i, burst_count, history, inflight,
                   framesSince, led_controller_connection, lastCtl>>

\* await asyncio.sleep(0.1), then the loop variables are set up.
Sleep(s) ==
    /\ pc[s] = "sleep"
    /\ burst_count' = [burst_count EXCEPT ![s] = 0]
    /\ i' = [i EXCEPT ![s] = 0]
    /\ pc' = [pc EXCEPT ![s] = "send"]
    /\ UNCHANGED <<recorder, relay, client_id, inbox, is_recording, audio_buffer, user_text,
                   ai_response_text, response_audio_bytes, history, inflight,
                   framesSince, turn, led_controller_connection, lastCtl>>

\* Mutant: the slice stops one byte early.
ChunkShort(s) == [kind |-> "bytes", lo |-> i[s],
                  hi |-> Min(i[s] + CHUNK_SIZE - 1, response_audio_bytes[s])]

\* 4. the send loop: range(0, len(response_audio_bytes), CHUNK_SIZE)
Chunk(s) == [kind |-> "bytes", lo |-> i[s],
             hi |-> Min(i[s] + CHUNK_SIZE, response_audio_bytes[s])]
Marker == [kind |-> "response_finished", lo |-> 0, hi |-> 0]

\* Mutant: the loop is left one chunk early.
LoopPcEarly(s, next) ==
    IF next + CHUNK_SIZE < response_audio_bytes[s] THEN "send" ELSE "marker"

\* The loop test: the next offset of range(0, len, CHUNK_SIZE), or the end.
LoopPc(s, next) == IF next < response_audio_bytes[s] THEN "send" ELSE "marker"

\* Mutant: the burst is one chunk longer.
burst_over(count) == count > BURST_SIZE

\* `if burst_count >= BURST_SIZE`
burst_full(count) == count >= BURST_SIZE

SendChunk(s) ==
    /\ pc[s] = "send"
    /\ turn' = [turn EXCEPT ![s].sent = Append(@, Chunk(s))]
    /\ i' = [i EXCEPT ![s] = @ + CHUNK_SIZE]
    /\ IF burst_full(burst_count[s] + 1)
       THEN /\ burst_count' = [burst_count EXCEPT ![s] = 0]
            /\ pc' = [pc EXCEPT ![s] = "yield"]
       ELSE /\ burst_count' = [burst_count EXCEPT ![s] = @ + 1]
            /\ pc' = [pc EXCEPT ![s] = LoopPc(s, i[s] + CHUNK_SIZE)]
    /\ UNCHANGED <<recorder, relay, client_id, inbox, is_recording, audio_buffer, user_text,
                   ai_response_text, response_audio_bytes, history, inflight,
                   framesSince, led_controller_connection, lastCtl>>

\* await asyncio.sleep(0.001) after a full burst
Yield(s) ==
    /\ pc[s] = "yield"
    /\ pc' = [pc EXCEPT ![s] = LoopPc(s, i[s])]
    /\ turn' = [turn EXCEPT ![s].yields = @ + 1]
    /\ UNCHANGED <<recorder, relay, client_id, inbox, is_recording, audio_buffer, locals,
                   history, inflight, framesSince,
                   led_controller_connection, lastCtl>>

\* Mutant: the failed chunk is tried again.
send_error_retries(s) == "send"

\* `break` in the except clause of the loop: on to the code after the loop.
send_error_breaks(s) == "marker"

\* send_bytes raises: the except clause breaks out of the loop.
SendChunkFails(s) ==
    /\ pc[s] = "send"
    /\ turn' = [turn EXCEPT ![s].failed = @ + 1]
    /\ pc' = [pc EXCEPT ![s] = send_error_breaks(s)]
    /\ UNCHANGED <<recorder, relay, client_id, inbox, is_recording, audio_buffer, locals,
                   history, inflight, framesSince, led_controller_connection,
                   lastCtl>>

Outcome(s) == IF turn[s].failed = 0 THEN "streamed" ELSE "send_failed"

\* The end marker, sent after the loop however the loop ended.
SendMarker(s) ==
    /\ pc[s] = "marker"
    /\ pc' = [pc EXCEPT ![s] = "recv"]
    /\ inflight' = [inflight EXCEPT ![s] = @ - 1]
    /\ DropLocals(s)
    /\ turn' = [turn EXCEPT ![s].sent = Append(@, Marker),
                            ![s].mark = @ + 1,
                            ![s].out = Outcome(s)]
    /\ UNCHANGED <<recorder, relay, client_id, inbox, is_recording, audio_buffer, history,
                   framesSince, led_controller_connection, lastCtl>>

\* send_text raises: `except Exception: pass`.
SendMarkerFails(s) ==
    /\ pc[s] = "marker"
    /\ Continue(s, Outcome(s))
    /\ UNCHANGED <<recorder, relay, client_id, inbox, is_recording, audio_buffer, history,
                   framesSince, led_controller_connection, lastCtl>>

\* ------------------------------------------------------------ specification
Messages == {TextMsg(t) : t \in Texts} \cup {BytesMsg(b) : b \in Frames}
            \cup {DisconnectMsg}

Next ==
    \/ \E s \in Sess, c \in ClientIds : Connect(s, c)
    \/ \E s \in Sess, m \in Messages : ClientSend(s, m)
    \/ \E s \in Sess : RecvDisconnect(s)
    \/ \E s \in Sess : RecvBytes(s)
    \/ \E s \in Sess : RecvSignal(s)
    \/ \E s \in Sess : RecvMalformed(s)
    \/ \E s \in Sess : RecvIgnored(s)
    \/ \E s \in Sess : RecvStarted(s)
    \/ \E s \in Sess : RecvCancelled(s)
    \/ \E s \in Sess : RecvEndedEmpty(s)
    \/ \E s \in Sess : RecvEnded(s)
    \/ \E s \in Sess : AsrRaises(s)
    \/ \E s \in Sess, r \in SttResults : AsrFails(s, r)
    \/ \E s \in Sess, r \in SttResults : AsrReturns(s, r)
    \/ \E s \in Sess : LlmRaises(s)
    \/ \E s \in Sess, r \in LlmResults : LlmReturns(s, r)
    \/ \E s \in Sess : TtsRaises(s)
    \/ \E s \in Sess, r \in TtsResults : TtsFails(s, r)
    \/ \E s \in Sess, r \in TtsResults : TtsReturns(s, r)
    \/ \E s \in Sess : Sleep(s)
    \/ \E s \in Sess : SendChunk(s)
    \/ \E s \in Sess : Yield(s)
    \/ \E s \in Sess : SendChunkFails(s)
    \/ \E s \in Sess : SendMarker(s)
    \/ \E s \in Sess : SendMarkerFails(s)

Spec == Init /\ [][Next]_vars

\* The steps of the handler of s: a receive when a message is there, and the
\* return of whatever call it awaits. The event loop resumes a handler whose
\* awaited call has returned, so a handler step that stays possible is taken.
Handler(s) ==
    \/ RecvDisconnect(s) \/ RecvBytes(s) \/ RecvSignal(s) \/ RecvMalformed(s)
    \/ RecvIgnored(s) \/ RecvStarted(s) \/ RecvCancelled(s)
    \/ RecvEndedEmpty(s) \/ RecvEnded(s)
    \/ AsrRaises(s) \/ \E r \in SttResults : AsrFails(s, r) \/ AsrReturns(s, r)
    \/ LlmRaises(s) \/ \E r \in LlmResults : LlmReturns(s, r)
    \/ TtsRaises(s) \/ \E r \in TtsResults : TtsFails(s, r) \/ TtsReturns(s, r)
    \/ Sleep(s) \/ SendChunk(s) \/ Yield(s) \/ SendChunkFails(s)
    \/ SendMarker(s) \/ SendMarkerFails(s)

SpecFair == Spec /\ \A s \in Sess : WF_vars(Handler(s))

\* ------------------------------------------------------- two devices
\* Two connections served at once, each by its own websocket_endpoint
\* coroutine; short recordings, stages that answer, replies of one chunk.
Pair == {"s1", "s2"}
PairMessages == {TextMsg(TxtStarted), BytesMsg(<<1>>), TextMsg(TxtEnded)}
PairStt == {r \in SttResults : ~r.raises /\ transcribe_audio_stream(r) # ""}
PairLlm == {r \in LlmResults : ~r.raises}
PairTts == { [raises |-> FALSE, isdict |-> FALSE, len |-> CHUNK_SIZE] }

InitPair ==
    /\ pc = [s \in Pair |-> "init"]
    /\ client_id = [s \in Pair |-> None]
    /\ inbox = [s \in Pair |-> <<>>]
    /\ is_recording = [s \in Pair |-> FALSE]
    /\ audio_buffer = [s \in Pair |-> <<>>]
    /\ user_text = [s \in Pair |-> ""]
    /\ ai_response_text = [s \in Pair |-> ""]
    /\ response_audio_bytes = [s \in Pair |-> 0]
    /\ i = [s \in Pair |-> 0]
    /\ burst_count = [s \in Pair |-> 0]
    /\ led_controller_connection = None
    /\ history = [c \in SessionIds |-> <<>>]
    /\ inflight = [s \in Pair |-> 0]
    /\ lastCtl = [s \in Pair |-> "none"]
    /\ framesSince = [s \in Pair |-> <<>>]
    /\ turn = [s \in Pair |-> TurnZero]
    /\ opc = [o \in Obs |-> "init"]
    /\ fwd = [s \in Pair |-> NoFwd]
    /\ delivered = [o \in Obs |-> <<>>]
    /\ regs = <<>>
    /\ path = [s \in Pair |-> <<>>]
    /\ InitRecorder

NextPair ==
    \/ \E s \in Pair, c \in ClientIds : Connect(s, c)
    \/ \E s \in Pair, m \in PairMessages : ClientSend(s, m)
    \/ \E s \in Pair : RecvBytes(s)
    \/ \E s \in Pair : RecvStarted(s)
    \/ \E s \in Pair : RecvEndedEmpty(s)
    \/ \E s \in Pair : RecvEnded(s)
    \/ \E s \in Pair, r \in PairStt : AsrReturns(s, r)
    \/ \E s \in Pair, r \in PairLlm : LlmReturns(s, r)
    \/ \E s \in Pair, r \in PairTts : TtsReturns(s, r)
    \/ \E s \in Pair : Sleep(s)
    \/ \E s \in Pair : SendChunk(s)
    \/ \E s \in Pair : SendMarker(s)

SpecPair == InitPair /\ [][NextPair]_vars

\* ------------------------------------------------- the reply sender alone
\* Replies of many lengths, streamed by the send loop of one turn. The run
\* starts where the synthesis call of a turn is under way.
SendLens == {1, CHUNK_SIZE - 1, CHUNK_SIZE, CHUNK_SIZE + 1, 3 * CHUNK_SIZE,
             BURST_SIZE * CHUNK_SIZE, 10000, MaxChunks * CHUNK_SIZE - 300,
             2 * BURST_SIZE * CHUNK_SIZE}
SendResults == { [raises |-> FALSE, isdict |-> FALSE, len |-> n] : n \in SendLens }

InitSend ==
    /\ pc = [s \in Sess |-> "tts"]
    /\ client_id = [s \in Sess |-> "esp32"]
    /\ inbox = [s \in Sess |-> <<>>]
    /\ is_recording = [s \in Sess |-> FALSE]
    /\ audio_buffer = [s \in Sess |-> <<1>>]
    /\ user_text = [s \in Sess |-> "hello"]
    /\ ai_response_text = [s \in Sess |-> "reply"]
    /\ response_audio_bytes = [s \in Sess |-> 0]
    /\ i = [s \in Sess |-> 0]
    /\ burst_count = [s \in Sess |-> 0]
    /\ led_controller_connection = None
    /\ history = [c \in SessionIds |->
                    IF c = "esp32" THEN chain_save(<<>>, "hello", "reply")
                    ELSE <<>>]
    /\ inflight = [s \in Sess |-> 1]
    /\ lastCtl = [s \in Sess |-> "ended"]
    /\ framesSince = [s \in Sess |-> <<>>]
    /\ turn = [s \in Sess |->
                 [TurnZero EXCEPT !.out = "running", !.rec = TRUE,
                                  !.arg = <<1>>, !.expect = <<1>>, !.asr = 1,
                                  !.llm = 1, !.app = 2, !.replied = TRUE]]
    /\ opc = [o \in Obs |-> "init"]
    /\ fwd = [s \in Sess |-> NoFwd]
    /\ delivered = [o \in Obs |-> <<>>]
    /\ regs = <<>>
    /\ path = [s \in Sess |-> <<"ws", "esp32">>]
    /\ InitRecorder

NextSend ==
    \/ \E s \in Sess, r \in SendResults : TtsReturns(s, r)
    \/ \E s \in Sess : Sleep(s)
    \/ \E s \in Sess : SendChunk(s)
    \/ \E s \in Sess : Yield(s)
    \/ \E s \in Sess : SendChunkFails(s)
    \/ \E s \in Sess : SendMarker(s)
    \/ \E s \in Sess : SendMarkerFails(s)

SpecSend == InitSend /\ [][NextSend]_vars

\* --------------------------------------------- the relay of "1" and "0"
\* websocket_endpoint up to the recording events, together with
\* led_websocket_endpoint entered by LED controller connections.
RelayMessages == {TextMsg(TxtOne), TextMsg(TxtZero), TextMsg(TxtStarted),
                  TextMsg(TxtBroken), BytesMsg(<<1>>), DisconnectMsg}

NextRelay ==
    \/ \E s \in Sess, c \in ClientIds : Connect(s, c)
    \/ \E s \in Sess, m \in RelayMessages : ClientSend(s, m)
    \/ \E s \in Sess : RecvDisconnect(s)
    \/ \E s \in Sess : RecvBytes(s)
    \/ \E s \in Sess : RecvStarted(s)
    \/ \E s \in Sess : RecvMalformed(s)
    \/ \E s \in Sess : RecvSignal(s)
    \/ \E s \in Sess : FwdReturns(s)
    \/ \E s \in Sess : FwdFails(s)
    \/ \E o \in Obs : ObsRegister(o)
    \/ \E o \in Obs : ObsEnds(o)

SpecRelay == Init /\ [][NextRelay]_vars

\* ------------------------------------------- connections on either path
\* Devices open /ws/esp32 and /ws/led; each connection is served by the
\* endpoint the router picks.
Paths == {<<"ws", "esp32">>, <<"ws", "led">>}
RouteMessages == RelayMessages \cup {TextMsg(TxtCancelled), TextMsg(TxtWake),
                                     BytesMsg(<<2, 3>>)}

NextRoute ==
    \/ \E s \in Sess, p \in Paths : Accept(s, p)
    \/ \E s \in Sess, m \in RouteMessages : ClientSend(s, m)
    \/ \E s \in Sess : RecvDisconnect(s)
    \/ \E s \in Sess : RecvBytes(s)
    \/ \E s \in Sess : RecvStarted(s)
    \/ \E s \in Sess : RecvCancelled(s)
    \/ \E s \in Sess : RecvIgnored(s)
    \/ \E s \in Sess : RecvMalformed(s)
    \/ \E s \in Sess : RecvSignal(s)

SpecRoute == Init /\ [][NextRoute]_vars

\* ------------------------------------- the audio receiving server
\* simple_server.py: websocket_endpoint serves every connection with the one
\* module-level audio_receiver. A device sends frames of its own byte, so a
\* saved file shows whose frames it holds.
DeviceFrame(c) == IF c = "d1" THEN <<1>> ELSE <<2>>
RecorderTexts == {TxtStarted, TxtEnded, TxtOther}
RecorderMessages(c) ==
    {TextMsg(t) : t \in RecorderTexts} \cup {BytesMsg(DeviceFrame(c)), DisconnectMsg}

\* AudioReceiver.start_recording
start_recording(r) == [is_recording |-> TRUE, audio_buffer |-> <<>>]

\* AudioReceiver.add_audio_data
add_audio_data(r, data) ==
    IF r.is_recording THEN [r EXCEPT !.audio_buffer = @ \o data] ELSE r

\* AudioReceiver.stop_recording: the receiver afterwards (the buffer is kept)
\* and whether a file name is returned; written tells whether wave.open and
\* writeframes went through.
stop_recording(r, written) ==
    [receiver |-> [r EXCEPT !.is_recording = FALSE],
     saves |-> r.audio_buffer # <<>> /\ written]

PendingFrames(c) == CountKind(rinbox[c], "bytes")

\* The transport delivers a message of the device to the handler.
RecClientSend(c, m) ==
    /\ rpc[c] = "recv"
    /\ Len(rinbox[c]) < MaxInbox
    /\ \A k \in 1..Len(rinbox[c]) : rinbox[c][k].kind # "disconnect"
    /\ m.kind = "bytes" =>
          /\ Len(audio_receiver.audio_buffer) + PendingFrames(c) < MaxFrames
          /\ Len(own[c].audio_buffer) + PendingFrames(c) < MaxFrames
    /\ rinbox' = [rinbox EXCEPT ![c] = Append(@, m)]
    /\ UNCHANGED <<audio_receiver, rpc, saved, reply, own>>
    /\ UNCHANGED <<relay, pc, client_id, inbox, is_recording, audio_buffer, locals,
                   history, inflight, framesSince, turn, lastCtl,
                   led_controller_connection>>

\* await websocket.accept()
RecAccept(c) ==
    /\ rpc[c] = "init"
    /\ rpc' = [rpc EXCEPT ![c] = "recv"]
    /\ UNCHANGED <<audio_receiver, rinbox, saved, reply, own>>
    /\ UNCHANGED <<relay, pc, client_id, inbox, is_recording, audio_buffer, locals,
                   history, inflight, framesSince, turn, lastCtl,
                   led_controller_connection>>

RecTaking(c) == rpc[c] = "recv" /\ rinbox[c] # <<>>

RecIsEvent(c, e) ==
    /\ RecTaking(c) /\ Head(rinbox[c]).kind = "text"
    /\ ~json_event(Head(rinbox[c]).text).raises
    /\ json_event(Head(rinbox[c]).text).event = e

\* event == "recording_started"
RecStarted(c) ==
    /\ RecIsEvent(c, "recording_started")
    /\ rinbox' = [rinbox EXCEPT ![c] = Tail(@)]
    /\ audio_receiver' = start_recording(audio_receiver)
    /\ own' = [own EXCEPT ![c] = start_recording(@)]
    /\ UNCHANGED <<rpc, saved, reply>>
    /\ UNCHANGED <<relay, pc, client_id, inbox, is_recording, audio_buffer, locals,
                   history, inflight, framesSince, turn, lastCtl,
                   led_controller_connection>>

\* event == "recording_ended": the buffer is written to a file and the
\* outcome is reported to the connection the event came from.
RecEnded(c, written) ==
    /\ RecIsEvent(c, "recording_ended")
    /\ rinbox' = [rinbox EXCEPT ![c] = Tail(@)]
    /\ LET r == stop_recording(audio_receiver, written)
       IN /\ audio_receiver' = r.receiver
          /\ saved' = IF r.saves
                      THEN [by |-> c, data |-> audio_receiver.audio_buffer]
                      ELSE saved
          /\ reply' = [reply EXCEPT ![c] = IF r.saves THEN "file_saved"
                                           ELSE "file_save_failed"]
    /\ own' = [own EXCEPT ![c] = stop_recording(@, written).receiver]
    /\ UNCHANGED rpc
    /\ UNCHANGED <<relay, pc, client_id, inbox, is_recording, audio_buffer, locals,
                   history, inflight, framesSince, turn, lastCtl,
                   led_controller_connection>>

\* Any other event, and a text json.loads or data.get raises on: both
\* exceptions are caught inside the loop.
RecIgnored(c) ==
    /\ RecTaking(c) /\ Head(rinbox[c]).kind = "text"
    /\ \/ json_event(Head(rinbox[c]).text).raises
       \/ json_event(Head(rinbox[c]).text).event
             \notin {"recording_started", "recording_ended"}
    /\ rinbox' = [rinbox EXCEPT ![c] = Tail(@)]
    /\ UNCHANGED <<audio_receiver, rpc, saved, reply, own>>
    /\ UNCHANGED <<relay, pc, client_id, inbox, is_recording, audio_buffer, locals,
                   history, inflight, framesSince, turn, lastCtl,
                   led_controller_connection>>

\* elif "bytes" in message
RecBytes(c) ==
    /\ RecTaking(c) /\ Head(rinbox[c]).kind = "bytes"
    /\ rinbox' = [rinbox EXCEPT ![c] = Tail(@)]
    /\ audio_receiver' = add_audio_data(audio_receiver, Head(rinbox[c]).bytes)
    /\ own' = [own EXCEPT ![c] = add_audio_data(@, Head(rinbox[c]).bytes)]
    /\ UNCHANGED <<rpc, saved, reply>>
    /\ UNCHANGED <<relay, pc, client_id, inbox, is_recording, audio_buffer, locals,
                   history, inflight, framesSince, turn, lastCtl,
                   led_controller_connection>>

\* A disconnect message has neither "text" nor "bytes"; the next receive()
\* raises, which the loop answers with break. websocket.receive() returns
\* the disconnect instead of raising WebSocketDisconnect, so the handler
\* ends without saving.
RecDisconnect(c) ==
    /\ RecTaking(c) /\ Head(rinbox[c]).kind = "disconnect"
    /\ rinbox' = [rinbox EXCEPT ![c] = Tail(@)]
    /\ rpc' = [rpc EXCEPT ![c] = "closed"]
    /\ UNCHANGED <<audio_receiver, saved, reply, own>>
    /\ UNCHANGED <<relay, pc, client_id, inbox, is_recording, audio_buffer, locals,
                   history, inflight, framesSince, turn, lastCtl,
                   led_controller_connection>>

NextRecorder ==
    \/ \E c \in Devices : RecAccept(c)
    \/ \E c \in Devices : \E m \in RecorderMessages(c) : RecClientSend(c, m)
    \/ \E c \in Devices : RecStarted(c)
    \/ \E c \in Devices, written \in BOOLEAN : RecEnded(c, written)
    \/ \E c \in Devices : RecIgnored(c)
    \/ \E c \in Devices : RecBytes(c)
    \/ \E c \in Devices : RecDisconnect(c)

SpecRecorder == Init /\ [][NextRecorder]_vars

\* ================================================================== claims
Idle(s) == pc[s] = "recv" /\ ~is_recording[s]
Processing(s) == pc[s] \in Pipeline

\* This step is the handler of s receiving the message m.
Receives(s, m) ==
    /\ Taking(s) /\ Head(inbox[s]) = m
    /\ inbox'[s] = Tail(inbox[s])

ReceivesFrame(s) ==
    /\ Taking(s) /\ Head(inbox[s]).kind = "bytes"
    /\ inbox'[s] = Tail(inbox[s])

\* No stage of the pipeline has been called and nothing was sent.
NoPipeline(t) ==
    t.asr = 0 /\ t.llm = 0 /\ t.app = 0 /\ t.tts = 0 /\ t.sent = <<>>

\* C1: in every reachable state each session has at most one pipeline
\* invocation in flight, and has one exactly while it is Processing.
C1_OnePipelineInFlight ==
    \A s \in Sess : inflight[s] <= 1 /\ (Processing(s) <=> inflight[s] = 1)

\* A second recording_ended has arrived while the pipeline of the session runs.
C1_Witness ==
    \E s \in Sess : /\ Processing(s) /\ inbox[s] # <<>>
                    /\ Head(inbox[s]) = TextMsg(TxtEnded)
                    /\ audio_buffer[s] # <<>>

\* C2: the recording flag is set only when the last of recording_started,
\* recording_ended and recording_cancelled received was recording_started; a
\* frame received while the flag is clear leaves the buffer unchanged, and so
\* does every step taken while the session is Processing.
C2_RecordingOnlyAfterStarted ==
    /\ [](\A s \in Sess : is_recording[s] => lastCtl[s] = "started")
    /\ [][\A s \in Sess :
            /\ (ReceivesFrame(s) /\ ~is_recording[s])
                  => audio_buffer'[s] = audio_buffer[s]
            /\ Processing(s) => audio_buffer'[s] = audio_buffer[s]]_vars

\* A non-empty frame is about to be received by an Idle session that still
\* holds audio.
C2_Witness ==
    \E s \in Sess : /\ Idle(s) /\ Taking(s)
                    /\ Head(inbox[s]).kind = "bytes"
                    /\ Head(inbox[s]).bytes # <<>>
                    /\ audio_buffer[s] # <<>>
                    /\ lastCtl[s] = "ended"

\* C3: receiving recording_ended while the buffer is empty starts no pipeline:
\* no stage is called, nothing is sent, the history is unchanged and the
\* session is Idle afterwards.
C3_EmptyEndedNoPipeline ==
    [][\A s \in Sess :
         (Receives(s, TextMsg(TxtEnded)) /\ audio_buffer[s] = <<>>)
            => /\ Idle(s)' /\ inflight'[s] = 0
               /\ history' = history
               /\ NoPipeline(turn'[s])]_vars

\* recording_ended was received by a recording session with an empty buffer.
C3_Witness ==
    \E s \in Sess : /\ turn[s].out = "empty" /\ lastCtl[s] = "ended"
                    /\ Idle(s) /\ audio_buffer[s] = <<>>

\* C4: a recording_ended received while the session is Idle is ignored: no
\* pipeline starts and neither the session state nor the history changes.
C4_StrayEndedIgnored ==
    [][\A s \in Sess :
         (Receives(s, TextMsg(TxtEnded)) /\ ~is_recording[s])
            => /\ Idle(s)' /\ inflight'[s] = inflight[s]
               /\ history' = history]_vars

\* C5: for a turn started by recording_ended in Recording with a non-empty
\* buffer, the transcriber is called once and its argument is the
\* concatenation, in arrival order, of the frames received since the last
\* recording_started.
C5_TranscriberGetsFrames ==
    \A s \in Sess :
        (turn[s].rec /\ turn[s].out \notin {"none", "empty"})
           => /\ turn[s].arg = turn[s].expect
              /\ turn[s].asr = IF pc[s] = "asr" THEN 0 ELSE 1

\* The transcriber was called with two frames, <<2, 3>> then <<1>>.
C5_Witness ==
    \E s \in Sess : turn[s].rec /\ turn[s].asr = 1 /\ turn[s].arg = <<2, 3, 1>>

\* C6: recording_cancelled leaves the buffer empty and the session Idle, starts
\* no pipeline and leaves the history alone; while recording_cancelled is the
\* last of the three recording events received the buffer stays empty, and a
\* recording_ended received then starts no pipeline and leaves the session Idle.
C6_CancelDiscards ==
    /\ [](\A s \in Sess : lastCtl[s] = "cancelled"
             => audio_buffer[s] = <<>> /\ ~is_recording[s] /\ ~Processing(s))
    /\ [][\A s \in Sess :
            /\ Receives(s, TextMsg(TxtCancelled))
                  => /\ Idle(s)' /\ audio_buffer'[s] = <<>>
                     /\ inflight'[s] = 0 /\ history' = history
                     /\ NoPipeline(turn'[s])
            /\ (Receives(s, TextMsg(TxtEnded)) /\ lastCtl[s] = "cancelled")
                  => /\ Idle(s)' /\ inflight'[s] = 0 /\ history' = history
                     /\ NoPipeline(turn'[s])]_vars

\* A stray recording_ended is about to be received after a recording was
\* cancelled.
C6_Witness ==
    \E s \in Sess : /\ lastCtl[s] = "cancelled" /\ Taking(s)
                    /\ Head(inbox[s]) = TextMsg(TxtEnded)

\* The texts the two calls can hand on.
UserTexts == {transcribe_audio_stream(r) : r \in {x \in SttResults : ~x.raises}}
             \ {""}
ReplyTexts == {r.text : r \in {x \in LlmResults : ~x.raises}}

\* The turn was given up: by `continue` after a stage reported a failure, or by
\* a stage raising.
Aborted(t) == t.out \in {"asr_failed", "tts_failed", "raised"}

\* Every history is a sequence of (human, assistant) pairs.
PairShaped(h) ==
    /\ Len(h) % 2 = 0
    /\ \A k \in 1..Len(h) :
          h[k].speaker = IF k % 2 = 1 THEN "human" ELSE "assistant"

AppendsOnePair(old, new) ==
    \E q \in UserTexts, a \in ReplyTexts : new = old \o <<Human(q), Assistant(a)>>

AsrFailed(t) ==
    t.out = "asr_failed" \/ (t.out = "raised" /\ t.asr = 1 /\ t.llm = 0)
LlmFailed(t) == t.out = "raised" /\ t.llm = 1 /\ t.tts = 0
TtsFailed(t) == t.out = "tts_failed" \/ (t.out = "raised" /\ t.tts = 1)

\* C8: after a turn whose transcription was empty or whose transcriber failed,
\* the dialogue model was not called, the history got nothing, no chunk and no
\* end marker was sent, and the session is open and Idle.
C8_AsrFailureAbortsTurnOnly ==
    \A s \in Sess :
        AsrFailed(turn[s])
           => /\ turn[s].llm = 0 /\ turn[s].app = 0 /\ turn[s].sent = <<>>
              /\ Idle(s)

\* The part of C8 that the code keeps: when transcribe_audio_stream returns
\* the empty text.
AsrEmptyTextAbortsTurnOnly ==
    \A s \in Sess :
        turn[s].out = "asr_failed"
           => /\ turn[s].llm = 0 /\ turn[s].app = 0 /\ turn[s].sent = <<>>
              /\ Idle(s)

\* C9: after a turn whose dialogue call failed the history got nothing, no
\* reply was sent, and the session is open and Idle.
C9_DialogueFailureAbortsTurnOnly ==
    \A s \in Sess :
        LlmFailed(turn[s])
           => turn[s].app = 0 /\ turn[s].sent = <<>> /\ Idle(s)

\* C10: while the synthesizer is being called the pair of the turn is already
\* in the history, and after a turn whose synthesis failed the pair is still
\* there, nothing was sent, and the session is open and Idle.
C10_AppendBeforeSynthesis ==
    \A s \in Sess :
        /\ pc[s] = "tts" => turn[s].app = 2
        /\ TtsFailed(turn[s])
              => turn[s].app = 2 /\ turn[s].sent = <<>> /\ Idle(s)

\* The part of C10 that the code keeps: the append comes first, the pair
\* survives every synthesis failure, and a failure that synthesize_speech_stream
\* reports by returning no audio leaves the session open and Idle.
SynthesisFailureKeepsPair ==
    \A s \in Sess :
        /\ pc[s] = "tts" => turn[s].app = 2
        /\ TtsFailed(turn[s]) => turn[s].app = 2 /\ turn[s].sent = <<>>
        /\ turn[s].out = "tts_failed" => Idle(s)

\* ------------------------------------------------------------------ C11
AudioChunks(sent) == SelectSeq(sent, LAMBDA m : m.kind = "bytes")
Payloads(chunks) == [k \in 1..Len(chunks) |-> Slice(chunks[k].lo, chunks[k].hi)]
CeilDiv(a, b) == (a + b - 1) \div b

\* The chunks are ceil(len/size) many, none longer than size, only the last
\* possibly shorter, and together they are the audio.
Chunked(chunks, len, size) ==
    /\ Len(chunks) = CeilDiv(len, size)
    /\ \A k \in 1..Len(chunks) :
          /\ Len(Slice(chunks[k].lo, chunks[k].hi)) <= size
          /\ k < Len(chunks) => Len(Slice(chunks[k].lo, chunks[k].hi)) = size
    /\ Concat(Payloads(chunks)) = Slice(0, len)

\* Every chunk of the reply of s was sent and the loop is over.
AllChunksSent(s) ==
    /\ turn[s].failed = 0 /\ turn[s].len > 0
    /\ pc[s] = "marker" \/ turn[s].out = "streamed"

\* C11: when every send of a reply of L > 0 bytes succeeds, the chunks sent
\* are ceil(L / CHUNK_SIZE) many, each of at most CHUNK_SIZE bytes and only
\* the last possibly shorter, and their concatenation in send order is the
\* audio; the same holds of the loopback sender with its chunk size.
C11_ChunksReproduceAudio ==
    \A s \in Sess :
        AllChunksSent(s)
           => /\ Chunked(AudioChunks(turn[s].sent), turn[s].len, CHUNK_SIZE)
              /\ Chunked(send_audio_stream(0, turn[s].len), turn[s].len,
                         LOOPBACK_CHUNK_SIZE)

\* A reply of 10000 bytes went out in 10 chunks, the last of 784 bytes.
C11_Witness ==
    \E s \in Sess :
        /\ AllChunksSent(s) /\ turn[s].len = 10000
        /\ Len(AudioChunks(turn[s].sent)) = 10
        /\ AudioChunks(turn[s].sent)[10].hi - AudioChunks(turn[s].sent)[10].lo = 784
        /\ turn[s].out = "streamed"

\* ------------------------------------------------------------------ C12
\* C12: a reply whose chunks were all sent is followed by one attempt to send
\* response_finished, made after the last chunk and inside the same turn
\* (nothing is sent outside a turn, so before any message of a later one); at
\* most one marker goes out, it is the last message of the reply, and the
\* attempt failing leaves the session open and Idle.
C12_OneMarkerAfterLastChunk ==
    /\ [](\A s \in Sess :
            turn[s].out = "streamed"
               => LET sent == turn[s].sent
                      n == CeilDiv(turn[s].len, CHUNK_SIZE)
                  IN /\ turn[s].mark = 1
                     /\ Len(AudioChunks(sent)) = n
                     /\ \A k \in 1..Len(sent) : sent[k] = Marker <=> k = n + 1
                     /\ Len(sent) <= n + 1
                     /\ Idle(s))
    /\ [][\A s \in Sess :
            /\ (turn'[s].sent # turn[s].sent /\ turn'[s].sent # <<>>)
                  => Processing(s)
            /\ turn'[s].mark > turn[s].mark
                  => /\ pc[s] = "marker" /\ pc'[s] = "recv"
                     /\ is_recording'[s] = is_recording[s]
                     /\ audio_buffer'[s] = audio_buffer[s]
                     /\ AudioChunks(turn'[s].sent) = AudioChunks(turn[s].sent)]_vars

\* A nine chunk reply went out and its marker followed.
C12_Witness ==
    \E s \in Sess : /\ turn[s].out = "streamed" /\ Len(turn[s].sent) = 10
                    /\ turn[s].sent[10] = Marker

\* The marker of a fully sent reply could not be sent; the session is open.
C12_WitnessSwallowed ==
    \E s \in Sess : /\ turn[s].out = "streamed" /\ turn[s].mark = 1
                    /\ Marker \notin {turn[s].sent[k] : k \in 1..Len(turn[s].sent)}
                    /\ pc[s] = "recv"

\* ------------------------------------------------------------------ C13
\* C13: once the send of a chunk of a reply has failed, no chunk of that reply
\* is sent any more: the loop is left, the failed chunk is not sent again and
\* no chunk after it is sent (the record of the turn ends when the handler
\* receives its next message).
C13_FailedSendEndsChunks ==
    /\ [](\A s \in Sess :
            /\ turn[s].failed <= 1
            /\ turn[s].failed = 1 => pc[s] \notin {"send", "yield"})
    /\ [][\A s \in Sess :
            turn[s].failed >= 1
               => \/ AudioChunks(turn'[s].sent) = AudioChunks(turn[s].sent)
                  \/ turn'[s].failed = 0 /\ Receives(s, Head(inbox[s]))]_vars

\* The send of the third chunk of a nine chunk reply failed.
C13_Witness ==
    \E s \in Sess : /\ turn[s].failed = 1 /\ turn[s].len > 3 * CHUNK_SIZE
                    /\ Len(AudioChunks(turn[s].sent)) = 2
                    /\ turn[s].out = "send_failed"

\* ------------------------------------------------------------------ C14
\* C14: after the send of a chunk has failed the session sends nothing more
\* on the connection, response_finished included, and the handler's next step
\* closes the connection instead of going back to receive.
C14_SendFailureIsDisconnect ==
    [][\A s \in Sess :
         (turn[s].failed >= 1 /\ Processing(s))
            => /\ turn'[s].sent = turn[s].sent
               /\ turn'[s].mark = turn[s].mark
               /\ pc'[s] = "closed"]_vars

\* ------------------------------------------------------------------ C15
\* This step logs one more text at the LED controller connection o.
SentTo(o) == delivered'[o] # delivered[o]

ReceivesSignal(s) ==
    /\ Taking(s) /\ Head(inbox[s]).kind = "text"
    /\ Head(inbox[s]).text \in {TxtOne, TxtZero}
    /\ inbox'[s] = Tail(inbox[s])

\* C16: a forward that fails clears the slot and leaves the forwarding session
\* open, receiving again, its recording flag and buffer as they were; the
\* slot then stays empty until a controller registers, and a signal received
\* while the slot is empty is sent to nobody and changes nothing.
C16_ForwardFailureClearsSlot ==
    [][/\ \A s \in Sess :
            /\ (turn'[s].out = "forward_failed" /\ turn[s].out # "forward_failed")
                  => /\ pc[s] = "fwd" /\ pc'[s] = "recv"
                     /\ led_controller_connection' = None
                     /\ is_recording'[s] = is_recording[s]
                     /\ audio_buffer'[s] = audio_buffer[s]
                     /\ delivered' = delivered
            /\ (ReceivesSignal(s) /\ led_controller_connection = None)
                  => /\ pc'[s] = "recv" /\ fwd' = fwd /\ delivered' = delivered
                     /\ led_controller_connection' = None
                     /\ is_recording'[s] = is_recording[s]
                     /\ audio_buffer'[s] = audio_buffer[s]
       /\ (led_controller_connection = None /\ led_controller_connection' # None)
             => /\ Len(regs') = Len(regs) + 1
                /\ led_controller_connection' = regs'[Len(regs')]]_vars

\* A forward from a recording session with buffered audio failed while the
\* controller it was sent to is still connected.
C16_Witness ==
    \E s \in Sess : /\ turn[s].out = "forward_failed" /\ pc[s] = "recv"
                    /\ is_recording[s] /\ audio_buffer[s] # <<>>
                    /\ regs # <<>> /\ opc[regs[Len(regs)]] = "recv"
                    /\ led_controller_connection = None

\* After a failed forward the next signal found the slot empty.
C16_WitnessNoOp ==
    \E s \in Sess : /\ turn[s].out = "no_controller" /\ regs # <<>>
                    /\ \A o \in Obs : opc[o] # "closed"

\* ------------------------------------------------------------------ C17
\* C17: a connection opened on /ws/led is served by led_websocket_endpoint:
\* it has been stored in the slot, and it has no primary session (no client
\* id, no recording state, no place in the receive loop of
\* websocket_endpoint).
C17_LedPathRegistersController ==
    \A s \in Sess :
        path[s] = <<"ws", "led">>
           => /\ pc[s] \in {"led", "closed"}
              /\ \E k \in 1..Len(regs) : regs[k] = s
              /\ client_id[s] = None
              /\ ~is_recording[s] /\ audio_buffer[s] = <<>>

\* ------------------------------------------------------------------ C18
\* C18: a text that is neither "1" nor "0" and is not an event object (here
\* the invalid JSON {oops and the JSON array [1]) is ignored: the connection
\* stays open with the handler receiving again, and the recording flag and the
\* buffer are as they were.
C18_MalformedTextIgnored ==
    [][\A s \in Sess :
         (Receives(s, TextMsg(TxtBroken)) \/ Receives(s, TextMsg(TxtArray)))
            => /\ pc'[s] = "recv"
               /\ is_recording'[s] = is_recording[s]
               /\ audio_buffer'[s] = audio_buffer[s]]_vars

\* ------------------------------------------------------------------ C19
\* C19: with every awaited call returning, a session that is Processing is
\* eventually Idle again, whatever the stages answered.
C19_ProcessingLeadsToIdle ==
    \A s \in Sess : Processing(s) ~> Idle(s)

\* Every turn does come to an end: the session is eventually Idle again or
\* its connection has been closed.
TurnAlwaysEnds ==
    \A s \in Sess : Processing(s) ~> (Idle(s) \/ pc[s] = "closed")

\* ------------------------------------------------------------------ C20
\* C20: receiving "1" or "0" is no session event: whatever the state of the
\* session, the recording flag, the buffer and the history stay as they are,
\* no pipeline starts and the connection stays open; with a controller in the
\* slot the handler sends that controller the very text it received, and
\* the forward ends with that one text logged at the controller (or with
\* nothing logged when the send failed), the handler receiving again.
C20_SignalsArePassedThrough ==
    [][\A s \in Sess :
         /\ ReceivesSignal(s)
               => /\ is_recording'[s] = is_recording[s]
                  /\ audio_buffer'[s] = audio_buffer[s]
                  /\ history' = history
                  /\ inflight'[s] = 0 /\ NoPipeline(turn'[s])
                  /\ delivered' = delivered
                  /\ IF led_controller_connection = None
                     THEN pc'[s] = "recv"
                     ELSE /\ pc'[s] = "fwd"
                          /\ fwd'[s].target = led_controller_connection
                          /\ fwd'[s].text = Head(inbox[s]).text
         /\ (pc[s] = "fwd" /\ pc'[s] # "fwd")
               => /\ pc'[s] = "recv"
                  /\ is_recording'[s] = is_recording[s]
                  /\ audio_buffer'[s] = audio_buffer[s]
                  /\ \/ delivered' = [delivered EXCEPT ![fwd[s].target] =
                                          Append(@, fwd[s].text)]
                     \/ delivered' = delivered /\ turn'[s].out = "forward_failed"
                     \/ delivered' = delivered /\ opc[fwd[s].target] = "closed"]_vars

\* A recording session with buffered audio received "1" and then "0"; both
\* went to the registered controller, in that order.
C20_Witness ==
    \E s \in Sess, o \in Obs :
        /\ turn[s].out = "forwarded" /\ is_recording[s] /\ audio_buffer[s] # <<>>
        /\ delivered[o] = <<TxtOne, TxtZero>> /\ led_controller_connection = o

\* ------------------------------------------------------------------ C21
\* The handler of t has a step to take: a message to receive, or the turn it
\* is in to carry on with.
HasWork(t) == (pc[t] = "recv" /\ inbox[t] # <<>>) \/ Processing(t)

C22_SlotAccessesExclusive ==
    [][\A s \in Sess :
         /\ (pc[s] = "fwd" /\ pc'[s] = "fwd")
               => /\ led_controller_connection' = led_controller_connection
                  /\ regs' = regs /\ opc' = opc
         /\ (pc[s] = "fwd" /\ pc'[s] # "fwd")
               => /\ led_controller_connection \in {fwd[s].target, None}
                  /\ opc[fwd[s].target] = "recv"]_vars

\* A forward to the first controller is under way and a second controller
\* has registered meanwhile: the failure of the send will empty the slot the
\* second one is in.
C22_Race ==
    \E s \in Sess : /\ pc[s] = "fwd" /\ Len(regs) = 2
                    /\ fwd[s].target = regs[1]
                    /\ led_controller_connection = regs[2]

\* ------------------------------------------------------------------ C23
\* C23: the end of a controller connection empties the slot only when that
\* connection is the one in the slot; with another connection in the slot
\* the slot is left as it is.
C23_DisconnectClearsOwnSlotOnly ==
    [][\A o \in Obs :
         (opc[o] = "recv" /\ opc'[o] = "closed")
            => led_controller_connection' =
                  IF led_controller_connection = o
                  THEN None ELSE led_controller_connection]_vars

\* ------------------------------------------------------------------ C24
\* C24: having received "1" or "0" the handler is at its receive again, ready
\* for the next message of the session whether or not the send to the
\* controller has ended.
C24_ForwardDoesNotHoldSession ==
    [][\A s \in Sess : ReceivesSignal(s) => CanReceive(s)']_vars

\* The next message of the session is waiting while the send to the
\* controller is still under way.
C24_Held ==
    \E s \in Sess : pc[s] = "fwd" /\ inbox[s] # <<>> /\ ~CanReceive(s)

\* ------------------------------------------------------------------ C25
\* C25: in the send loop the burst counter is the number of chunks sent since
\* the last yield and stays below BURST_SIZE; the loop yields when that
\* number reaches BURST_SIZE, the counter then being 0 again; so after n
\* chunks it has yielded n \div BURST_SIZE times, and a reply of n chunks
\* sent without failure has yielded that many times when the loop is over.
C25_YieldEveryBurst ==
    \A s \in Sess :
        LET n == Len(AudioChunks(turn[s].sent)) IN
        /\ burst_count[s] < BURST_SIZE
        /\ pc[s] \in {"send", "yield", "marker"}
              => burst_count[s] = n % BURST_SIZE
        /\ pc[s] = "yield"
              => /\ n > 0 /\ burst_count[s] = 0
                 /\ turn[s].yields = (n \div BURST_SIZE) - 1
        /\ pc[s] \in {"send", "marker"} => turn[s].yields = n \div BURST_SIZE
        /\ AllChunksSent(s)
              => turn[s].yields =
                    CeilDiv(turn[s].len, CHUNK_SIZE) \div BURST_SIZE

\* A reply of sixteen chunks went out with two yields.
C25_Witness ==
    \E s \in Sess : /\ turn[s].out = "streamed" /\ turn[s].yields = 2
                    /\ Len(AudioChunks(turn[s].sent)) = 2 * BURST_SIZE

\* ------------------------------------------------------------------ C26
\* A device that is connected and has a recording under way.
Recording(c) == rpc[c] = "recv" /\ own[c].is_recording

\* The handler of c takes a recording_ended and answers file_saved.
SavesFor(c) ==
    /\ RecIsEvent(c, "recording_ended")
    /\ rinbox'[c] = Tail(rinbox[c])
    /\ reply'[c] = "file_saved"

\* C26: in the audio receiving server every connection has a recording flag
\* and an audio buffer of its own: while a device records, the receiver
\* holds the flag and the frames that device's own messages gave it,
\* whatever the other connection received meanwhile, and the file saved at
\* a device's recording_ended holds exactly that device's frames.
C26_RecordingsIndependent ==
    /\ [](\A c \in Devices : Recording(c) => audio_receiver = own[c])
    /\ [][\A c \in Devices :
             SavesFor(c) => saved' = [by |-> c, data |-> own[c].audio_buffer]]_vars

\* A file saved for one device that holds a frame of the other.
C26_MixedFile ==
    \E k \in 1..Len(saved.data) : <<saved.data[k]>> # DeviceFrame(saved.by)

====
